---- MODULE Spec2Model ----
(***************************************************************************)
(* Model of torch_geometric/datasets/tu_dataset.py: the TUDataset class,   *)
(* a two-stage on-disk cache (raw -> processed) in front of an in-memory   *)
(* list of graph records.                                                  *)
(*                                                                         *)
(* Everything lives below <root>/<name>/ ; the model fixes one root and    *)
(* one dataset name, so a path is the last component below that folder.    *)
(***************************************************************************)
EXTENDS Integers, Sequences, FiniteSets, TLC

(***************************************************************************)
(* Bounds of the model.                                                    *)
(***************************************************************************)
\* graphs in the canonical archive; graph g has g nodes and g edges
NumGraphs == 2
\* continuous node attribute columns an archive may carry
MaxNodeAttrs == 2
\* one-hot node label columns an archive may carry: none or one
NodeLabelCounts == {0, 1}
\* continuous edge attribute columns an archive may carry: none or one
EdgeAttrCounts == {0, 1}
\* one-hot edge label columns of an archive
EdgeLabelCounts == {1}

(***************************************************************************)
(* Tensors: a 2-d tensor is [n |-> rows, m |-> columns, v |-> cells]; it   *)
(* keeps its shape.  A missing tensor (None) is the tensor with no columns.*)
(***************************************************************************)
\* t[:, k:]  (python slicing: an offset beyond the last column gives no column)
SliceColsFrom(t, k) ==
    LET m2 == IF k >= t.m THEN 0 ELSE t.m - k
    IN  [n |-> t.n, m |-> m2,
         v |-> [r \in 1..t.n |-> [c \in 1..m2 |-> t.v[r][c + k]]]]

\* torch.cat([t, column of ones], dim=-1)
AppendOnes(t) ==
    [n |-> t.n, m |-> t.m + 1,
     v |-> [r \in 1..t.n |-> [c \in 1..(t.m + 1) |->
                                 IF c <= t.m THEN t.v[r][c] ELSE 1]]]

(***************************************************************************)
(* The two remote archives.                                                *)
(***************************************************************************)
url == "https://ls11-www.cs.tu-dortmund.de/people/morris/graphkerneldatasets"
cleaned_url ==
    "https://raw.githubusercontent.com/nd7141/graph_datasets/master/datasets"

\* the feature layouts an archive can have: attribute columns come first,
\* label columns after them
Layouts ==
    [na : 0..MaxNodeAttrs, nl : NodeLabelCounts,
     ea : EdgeAttrCounts, el : EdgeLabelCounts]

\* the cleaned archive holds the non-isomorphic graphs only: fewer graphs
GraphsAt(origin) == IF origin = cleaned_url THEN NumGraphs - 1 ELSE NumGraphs

\* every cell is distinct: it names its graph, its row and its column
NodeCell(origin, g, r, c) ==
    (IF origin = cleaned_url THEN 5000 ELSE 0) + 100 * g + 10 * r + c
EdgeCell(origin, g, r, c) == 1000 + NodeCell(origin, g, r, c)

\* one graph record as read_tu_data builds it
GraphRecord(origin, layout, g) ==
    [x   |-> [n |-> g, m |-> layout.na + layout.nl,
              v |-> [r \in 1..g |-> [c \in 1..(layout.na + layout.nl) |->
                                        NodeCell(origin, g, r, c)]]],
     adj |-> [n |-> g, m |-> layout.ea + layout.el,
              v |-> [r \in 1..g |-> [c \in 1..(layout.ea + layout.el) |->
                                        EdgeCell(origin, g, r, c)]]]]

(***************************************************************************)
(* Paths and file names.                                                   *)
(***************************************************************************)
\* one raw directory for both variants
raw_dir_shared(cleaned) == "raw"

raw_dir(cleaned) == IF cleaned THEN "raw_cleaned" ELSE "raw"

processed_dir(cleaned) == IF cleaned THEN "processed_cleaned" ELSE "processed"

\* a required raw file that no archive carries
raw_file_names_extra == <<"A", "graph_indicator", "node_attributes">>

raw_file_names == <<"A", "graph_indicator">>

\* a fourth artifact that process() never writes
processed_file_names_extra ==
    <<"data.pt", "num_node_attributes.pt", "num_edge_attributes.pt",
      "pre_filter.pt">>

processed_file_names ==
    <<"data.pt", "num_node_attributes.pt", "num_edge_attributes.pt">>

\* self.processed_paths[i] (python counts from 0, the model from 1)
processed_paths(i) == processed_file_names[i]

Range(seq) == {seq[i] : i \in 1..Len(seq)}

\* the files of an archive; graph_labels is in every archive of the collection
ArchiveFiles == {"A", "graph_indicator", "graph_labels"}

\* <root>/<name>/<name>: the folder the archive extracts to
ExtractedDir == "extracted"

RawDirs == {"raw", "raw_cleaned"}
ProcessedDirs == {"processed", "processed_cleaned"}

\* a directory of raw files: the files all come from one archive
NoDir == [exists |-> FALSE, files |-> {}, origin |-> "none"]
EmptyDir == [exists |-> TRUE, files |-> {}, origin |-> "none"]

\* a directory of processed artifacts: `has` are the artifacts on disk, the
\* other fields their contents (the default where the artifact is missing)
NoProcessed ==
    [exists |-> FALSE, has |-> {}, data_list |-> <<>>,
     num_node_attributes |-> 0, num_edge_attributes |-> 0]
EmptyProcessed == [NoProcessed EXCEPT !.exists = TRUE]

\* <root>/<name>/<name>.zip; complete tells a whole archive from one that
\* was cut off while it was written
NoZip == [exists |-> FALSE, origin |-> "none", complete |-> FALSE]

(***************************************************************************)
(* State.                                                                  *)
(***************************************************************************)
VARIABLES
    remote,       \* the feature layout of the archives behind both URLs
    fs,           \* the files below <root>/<name>/
    ds,           \* the TUDataset object built by the latest construction
                  \* since a file was last deleted by hand (NoDataset when
                  \* there is none: an object older than a deletion no
                  \* longer tells what is on disk),
                  \* with what that construction ran, the callables its
                  \* process() run applied (they are read by process()
                  \* alone), and whether it repeated the one before it
    processRuns,  \* per variant: runs of process() since its processed
                  \* artifacts were last deleted by hand
    runners,      \* the constructions under way, each with its position in
                  \* __init__ (used where a construction is followed step
                  \* by step)
    started,      \* the number of constructions started step by step
    writer,       \* per processed artifact: the construction whose
                  \* process() wrote it last, 0 for none (kept where
                  \* constructions are followed step by step)
    interrupted   \* the variants a construction of which was killed inside
                  \* download(), no file deleted by hand since

cacheVars == <<remote, fs, ds, processRuns>>
runVars == <<runners, started, writer, interrupted>>
vars == <<remote, fs, ds, processRuns, runners, started, writer,
          interrupted>>

(***************************************************************************)
(* Helpers of the package that tu_dataset.py calls.                        *)
(***************************************************************************)
\* one file of the list is enough
files_exist_any(dir, names) == dir.exists /\ Range(names) \cap dir.files # {}

\* torch_geometric.data.dataset.files_exist
files_exist(dir, names) == dir.exists /\ Range(names) \subseteq dir.files

\* torch_geometric.data.makedirs on a raw directory
makedirs(f, path) ==
    IF f.dirs[path].exists THEN f
    ELSE [f EXCEPT !.dirs[path] = EmptyDir]

\* torch_geometric.data.makedirs on a processed directory
makedirs_processed(f, path) ==
    IF f.proc[path].exists THEN f
    ELSE [f EXCEPT !.proc[path] = EmptyProcessed]

\* download_url(url, folder): <root>/<name>/<name>.zip holds the archive
download_url(f, origin) ==
    [f EXCEPT !.zip = [exists |-> TRUE, origin |-> origin,
                       complete |-> TRUE]]

\* extract_zip(path, folder): the archive's folder <name> appears in folder
extract_zip(f) ==
    [f EXCEPT !.dirs[ExtractedDir] =
        [exists |-> TRUE, files |-> ArchiveFiles, origin |-> f.zip.origin]]

\* read_tu_data(raw_dir, name): the records in file order, then the number of
\* node attribute columns and of edge attribute columns
read_tu_data(dir) ==
    [data_list |-> [g \in 1..GraphsAt(dir.origin) |->
                       GraphRecord(dir.origin, remote, g)],
     num_node_attributes |-> remote.na,
     num_edge_attributes |-> remote.ea]

(***************************************************************************)
(* The callables a caller may pass.                                        *)
(***************************************************************************)
PreFilters == {"None", "reject_all", "small"}
PreTransforms == {"None", "Constant"}

\* the value of self.pre_filter(data), for a pre_filter that is not None
pre_filter(pf, data) ==
    CASE pf = "reject_all" -> FALSE
      [] pf = "small" -> data.x.n * data.x.m <= 2

\* the value of self.pre_transform(data), for a pre_transform that is not
\* None; Constant appends a column of ones to x
pre_transform(pt, data) ==
    CASE pt = "Constant" -> [data EXCEPT !.x = AppendOnes(data.x)]

(***************************************************************************)
(* TUDataset.download                                                      *)
(***************************************************************************)
\* the archive is left where it was fetched
unlink_zip_skipped(f) == f

\* os.unlink(path)
unlink_zip(f) == [f EXCEPT !.zip = NoZip]

\* the raw directory is left as it is
rmtree_raw_skipped(f, cleaned) == f

\* shutil.rmtree(self.raw_dir)
rmtree_raw(f, cleaned) == [f EXCEPT !.dirs[raw_dir(cleaned)] = NoDir]

\* os.rename(osp.join(folder, self.name), self.raw_dir)
rename_extracted(f, cleaned) ==
    [f EXCEPT !.dirs[raw_dir(cleaned)] = f.dirs[ExtractedDir],
              !.dirs[ExtractedDir] = NoDir]

\* the canonical URL whatever the flag says
archive_url_canonical(cleaned) == url

\* line 108: url = self.cleaned_url if self.cleaned else self.url
archive_url(cleaned) == IF cleaned THEN cleaned_url ELSE url

download(f, cleaned) ==
    LET origin == archive_url(cleaned)
        f0 == [f EXCEPT !.ran = @ \cup {"download"}]
        f1 == download_url(f0, origin)
        f2 == extract_zip(f1)
        f3 == unlink_zip(f2)
        f4 == rmtree_raw(f3, cleaned)
    IN  rename_extracted(f4, cleaned)

(***************************************************************************)
(* TUDataset.process                                                       *)
(***************************************************************************)
\* the filter is never applied
apply_pre_filter_skipped(pf, data_list) == data_list

\* lines 120-121: drop the records pre_filter rejects
apply_pre_filter(pf, data_list) ==
    IF pf # "None"
    THEN SelectSeq(data_list, LAMBDA data : pre_filter(pf, data))
    ELSE data_list

\* lines 123-124: map the records through pre_transform
apply_pre_transform(pt, data_list) ==
    IF pt # "None"
    THEN [i \in 1..Len(data_list) |-> pre_transform(pt, data_list[i])]
    ELSE data_list

\* torch.save(data_list, self.processed_paths[0])
save_data_list(f, path, data_list) ==
    [f EXCEPT !.proc[path].has = @ \cup {processed_paths(1)},
              !.proc[path].data_list = data_list]

\* torch.save(self.num_node_attributes, self.processed_paths[1])
save_num_node_attributes(f, path, k) ==
    [f EXCEPT !.proc[path].has = @ \cup {processed_paths(2)},
              !.proc[path].num_node_attributes = k]

\* the third artifact is never written
save_num_edge_attributes_skipped(f, path, k) == f

\* torch.save(self.num_edge_attributes, self.processed_paths[2])
save_num_edge_attributes(f, path, k) ==
    [f EXCEPT !.proc[path].has = @ \cup {processed_paths(3)},
              !.proc[path].num_edge_attributes = k]

\* the transform is applied before the filter
process_transform_first(f, cleaned, pf, pt) ==
    LET data == read_tu_data(f.dirs[raw_dir(cleaned)])
        mapped == apply_pre_transform(pt, data.data_list)
        data_list == apply_pre_filter(pf, mapped)
        path == processed_dir(cleaned)
        f0 == [f EXCEPT !.ran = @ \cup {"process"}]
        f1 == save_data_list(f0, path, data_list)
        f2 == save_num_node_attributes(f1, path, data.num_node_attributes)
    IN  save_num_edge_attributes(f2, path, data.num_edge_attributes)

process(f, cleaned, pf, pt) ==
    LET data == read_tu_data(f.dirs[raw_dir(cleaned)])
        kept == apply_pre_filter(pf, data.data_list)
        data_list == apply_pre_transform(pt, kept)
        path == processed_dir(cleaned)
        f0 == [f EXCEPT !.ran = @ \cup {"process"}]
        f1 == save_data_list(f0, path, data_list)
        f2 == save_num_node_attributes(f1, path, data.num_node_attributes)
    IN  save_num_edge_attributes(f2, path, data.num_edge_attributes)

(***************************************************************************)
(* The construction steps of the base class (InMemoryDataset / Dataset).   *)
(***************************************************************************)
RawPresent(f, cleaned) == files_exist(f.dirs[raw_dir(cleaned)], raw_file_names)

ProcessedPresent(f, cleaned) ==
    files_exist([exists |-> f.proc[processed_dir(cleaned)].exists,
                 files |-> f.proc[processed_dir(cleaned)].has],
                processed_file_names)

\* torch.load finds the three files that lines 66-68 read
Loadable(f, cleaned) ==
    LET p == f.proc[processed_dir(cleaned)]
    IN  p.exists /\ {processed_paths(i) : i \in 1..3} \subseteq p.has

\* the raw files are fetched when they are missing
ensure_raw(f, cleaned) ==
    IF RawPresent(f, cleaned) THEN f
    ELSE download(makedirs(f, raw_dir(cleaned)), cleaned)

\* the raw files are looked for before the processed artifacts
ensure_processed_raw_first(f, cleaned, pf, pt) ==
    LET f1 == ensure_raw(f, cleaned)
    IN  IF ProcessedPresent(f1, cleaned) THEN f1
        ELSE process(makedirs_processed(f1, processed_dir(cleaned)),
                     cleaned, pf, pt)

\* the processed artifacts are built when they are missing
ensure_processed(f, cleaned, pf, pt) ==
    IF ProcessedPresent(f, cleaned) THEN f
    ELSE process(makedirs_processed(ensure_raw(f, cleaned),
                                    processed_dir(cleaned)),
                 cleaned, pf, pt)

(***************************************************************************)
(* TUDataset.__init__ after the base class returns: load and strip.        *)
(***************************************************************************)
\* the label columns are dropped instead of the attribute columns
strip_node_attributes_keeps_attributes(data_list, num_node_attributes, use_node_attributes) ==
    IF num_node_attributes > 0 /\ ~use_node_attributes
    THEN [i \in 1..Len(data_list) |->
            [data_list[i] EXCEPT
                !.x = [n |-> @.n, m |-> num_node_attributes,
                       v |-> [r \in 1..@.n |->
                                [c \in 1..num_node_attributes |->
                                    @.v[r][c]]]]]]
    ELSE data_list

\* the attribute columns are dropped whatever use_node_attributes says
strip_node_attributes_always(data_list, num_node_attributes, use_node_attributes) ==
    IF num_node_attributes > 0
    THEN [i \in 1..Len(data_list) |->
            [data_list[i] EXCEPT
                !.x = SliceColsFrom(@, num_node_attributes)]]
    ELSE data_list

\* lines 70-72
strip_node_attributes(data_list, num_node_attributes, use_node_attributes) ==
    IF num_node_attributes > 0 /\ ~use_node_attributes
    THEN [i \in 1..Len(data_list) |->
            [data_list[i] EXCEPT
                !.x = SliceColsFrom(@, num_node_attributes)]]
    ELSE data_list

\* lines 74-78
strip_edge_attributes(data_list, num_edge_attributes, use_edge_attributes) ==
    IF num_edge_attributes > 0 /\ ~use_edge_attributes
    THEN [i \in 1..Len(data_list) |->
            [data_list[i] EXCEPT
                !.adj = SliceColsFrom(@, num_edge_attributes)]]
    ELSE data_list

\* lines 66-78: the record list and the two counts of the new object
load(f, cleaned, use_node_attributes, use_edge_attributes) ==
    LET p == f.proc[processed_dir(cleaned)]
        l1 == strip_node_attributes(p.data_list, p.num_node_attributes,
                                    use_node_attributes)
        l2 == strip_edge_attributes(l1, p.num_edge_attributes,
                                    use_edge_attributes)
    IN  [data_list |-> l2,
         num_node_attributes |-> p.num_node_attributes,
         num_edge_attributes |-> p.num_edge_attributes]

(***************************************************************************)
(* Properties of a dataset object.                                         *)
(***************************************************************************)
\* Dataset.num_node_features: the columns of x of the first record
num_node_features(d) ==
    IF d.data_list = <<>> THEN 0 ELSE d.data_list[1].x.m

\* Dataset.num_edge_features: the value channels of the first record
num_edge_features(d) ==
    IF d.data_list = <<>> THEN 0 ELSE d.data_list[1].adj.m

\* the attribute count is not subtracted
num_node_labels_all_columns(d) == num_node_features(d)

num_node_labels(d) == num_node_features(d) - d.num_node_attributes

num_edge_labels(d) == num_edge_features(d) - d.num_edge_attributes

(***************************************************************************)
(* A construction followed step by step: the calls of __init__, download   *)
(* and process one at a time, so that a call can fail, the process can be  *)
(* killed between two calls, and two constructions can interleave.  The    *)
(* constructions followed this way pass the defaults of the signature for  *)
(* every argument but cleaned.                                             *)
(***************************************************************************)
\* the constructions followed step by step in one behaviour
MaxRuns == 3

Runners == {1, 2}

\* the layouts the step-by-step constructions are run against
RunLayouts ==
    {l \in Layouts : l.na = MaxNodeAttrs /\ l.nl = 1 /\ l.ea = 1}

\* the calls of download(), lines 110-114
DownloadSteps == {"fetch", "extract", "unlink", "rmtree", "rename"}

\* the calls whose failure is an input: the network, the archive, the
\* file system, the raw text
FailSteps == DownloadSteps \cup {"parse"}

ActiveSteps ==
    {"check_raw", "save1", "save2", "save3", "load", "load2", "load3"}
        \cup FailSteps

\* no construction under way: never started, returned, raised, or killed
Rest == {"idle", "done", "failed", "killed"}

NoParsed ==
    [data_list |-> <<>>, num_node_attributes |-> 0, num_edge_attributes |-> 0]

Idle ==
    [pc |-> "idle", cleaned |-> FALSE, stamp |-> 0, ran |-> {},
     error |-> "none", at |-> "idle", partial |-> FALSE, stale |-> FALSE,
     overlapped |-> FALSE, fetches |-> 0,
     data |-> NoParsed, read |-> NoParsed, loaded |-> <<0, 0, 0>>]

\* the exception is caught and download() is entered again
raise_and_retry(r, kind) == [r EXCEPT !.pc = "fetch"]

\* the exception of a call leaves __init__: the construction is over
raise(r, kind) == [r EXCEPT !.pc = "failed", !.error = kind, !.at = r.pc]

\* zipfile opens a whole archive only
can_extract(f) == f.zip.exists /\ f.zip.complete

\* os.unlink raises FileNotFoundError on a missing file
can_unlink(f) == f.zip.exists

\* shutil.rmtree raises FileNotFoundError on a missing directory
can_rmtree(f, cleaned) == f.dirs[raw_dir(cleaned)].exists

\* os.rename needs its source, and a target that is absent or empty
can_rename(f, cleaned) ==
    /\ f.dirs[ExtractedDir].exists
    /\ \/ ~f.dirs[raw_dir(cleaned)].exists
       \/ f.dirs[raw_dir(cleaned)].files = {}

\* torch.load opens the file self.processed_paths[i - 1]
can_load(f, cleaned, i) ==
    /\ f.proc[processed_dir(cleaned)].exists
    /\ processed_paths(i) \in f.proc[processed_dir(cleaned)].has

\* read_tu_data opens the required raw files
can_read(f, cleaned) == RawPresent(f, cleaned)

InitRun ==
    /\ runners = [p \in Runners |-> Idle]
    /\ started = 0
    /\ writer = [d \in ProcessedDirs |-> <<0, 0, 0>>]
    /\ interrupted = {}

(***************************************************************************)
(* Initial state: nothing on disk, no object built.                        *)
(***************************************************************************)
\* no process() run: no callable was applied
NothingApplied == [pre_filter |-> "None", pre_transform |-> "None"]

NoDataset ==
    [built |-> FALSE, repeated |-> FALSE, follows_stripped |-> FALSE,
     cleaned |-> FALSE,
     use_node_attributes |-> FALSE, use_edge_attributes |-> FALSE,
     data_list |-> <<>>, num_node_attributes |-> 0, num_edge_attributes |-> 0,
     ran |-> {}, applied |-> NothingApplied]

Init ==
    /\ remote \in Layouts
    /\ fs = [dirs |-> [d \in RawDirs \cup {ExtractedDir} |-> NoDir],
             zip  |-> NoZip,
             proc |-> [d \in ProcessedDirs |-> NoProcessed]]
    /\ ds = NoDataset
    /\ processRuns = [c \in BOOLEAN |-> 0]
    /\ InitRun

(***************************************************************************)
(* TUDataset(root, name, pre_transform, pre_filter, use_node_attributes,   *)
(*           use_edge_attributes, cleaned)                                 *)
(***************************************************************************)
\* the stripped records are saved over the persisted ones
TUDataset_init_saves_stripped(cleaned, pf, pt, una, uea) ==
    \E f1 \in {ensure_processed([dirs |-> fs.dirs, zip |-> fs.zip,
                                 proc |-> fs.proc, ran |-> {}],
                                cleaned, pf, pt)} :
    \E loaded \in {load(f1, cleaned, una, uea)} :
        /\ Loadable(f1, cleaned)
        /\ fs' = [dirs |-> f1.dirs, zip |-> f1.zip,
                  proc |-> [f1.proc EXCEPT
                               ![processed_dir(cleaned)].data_list =
                                   loaded.data_list]]
        /\ ds' = [built |-> TRUE,
                  repeated |-> /\ ds.built
                               /\ ds.cleaned = cleaned
                               /\ ds.use_node_attributes = una
                               /\ ds.use_edge_attributes = uea,
                  follows_stripped |-> /\ ds.built
                                       /\ ds.cleaned = cleaned
                                       /\ ~ds.use_node_attributes
                                       /\ ds.num_node_attributes > 0,
                  cleaned |-> cleaned,
                  use_node_attributes |-> una, use_edge_attributes |-> uea,
                  data_list |-> loaded.data_list,
                  num_node_attributes |-> loaded.num_node_attributes,
                  num_edge_attributes |-> loaded.num_edge_attributes,
                  ran |-> f1.ran,
                  applied |-> IF "process" \in f1.ran
                              THEN [pre_filter |-> pf, pre_transform |-> pt]
                              ELSE NothingApplied]
        /\ processRuns' = [processRuns EXCEPT ![cleaned] =
                              IF "process" \in f1.ran THEN @ + 1 ELSE @]
        /\ UNCHANGED <<remote, runVars>>

TUDataset_init(cleaned, pf, pt, una, uea) ==
    \E f1 \in {ensure_processed([dirs |-> fs.dirs, zip |-> fs.zip,
                                 proc |-> fs.proc, ran |-> {}],
                                cleaned, pf, pt)} :
    \E loaded \in {load(f1, cleaned, una, uea)} :
        /\ Loadable(f1, cleaned)
        /\ fs' = [dirs |-> f1.dirs, zip |-> f1.zip, proc |-> f1.proc]
        /\ ds' = [built |-> TRUE,
                  repeated |-> /\ ds.built
                               /\ ds.cleaned = cleaned
                               /\ ds.use_node_attributes = una
                               /\ ds.use_edge_attributes = uea,
                  follows_stripped |-> /\ ds.built
                                       /\ ds.cleaned = cleaned
                                       /\ ~ds.use_node_attributes
                                       /\ ds.num_node_attributes > 0,
                  cleaned |-> cleaned,
                  use_node_attributes |-> una, use_edge_attributes |-> uea,
                  data_list |-> loaded.data_list,
                  num_node_attributes |-> loaded.num_node_attributes,
                  num_edge_attributes |-> loaded.num_edge_attributes,
                  ran |-> f1.ran,
                  applied |-> IF "process" \in f1.ran
                              THEN [pre_filter |-> pf, pre_transform |-> pt]
                              ELSE NothingApplied]
        /\ processRuns' = [processRuns EXCEPT ![cleaned] =
                              IF "process" \in f1.ran THEN @ + 1 ELSE @]
        /\ UNCHANGED <<remote, runVars>>

Construct ==
    \E cleaned \in BOOLEAN, pf \in PreFilters, pt \in PreTransforms,
       una \in BOOLEAN, uea \in BOOLEAN :
        TUDataset_init(cleaned, pf, pt, una, uea)

(***************************************************************************)
(* The user's hands on the cache.                                          *)
(***************************************************************************)
\* the three processed artifacts of one variant are deleted
DeleteProcessed ==
    \E cleaned \in BOOLEAN :
        LET path == processed_dir(cleaned)
        IN  /\ fs.proc[path].has # {}
            /\ fs' = [fs EXCEPT !.proc[path] = EmptyProcessed]
            /\ processRuns' = [processRuns EXCEPT ![cleaned] = 0]
            /\ ds' = NoDataset
            /\ UNCHANGED <<remote, runVars>>

\* the required raw files of one variant are deleted
DeleteRaw ==
    \E cleaned \in BOOLEAN :
        LET path == raw_dir(cleaned)
        IN  /\ fs.dirs[path].files \cap Range(raw_file_names) # {}
            /\ fs' = [fs EXCEPT !.dirs[path].files =
                                    @ \ Range(raw_file_names)]
            /\ ds' = NoDataset
            /\ UNCHANGED <<remote, processRuns, runVars>>

Next == Construct \/ DeleteProcessed \/ DeleteRaw

Spec == Init /\ [][Next]_vars

(***************************************************************************)
(* The step-by-step constructions.                                         *)
(***************************************************************************)
InitSteps == Init /\ remote \in RunLayouts

\* TUDataset(root, name, cleaned=cleaned): the processed files are looked
\* for first
Start(p) ==
    \E cleaned \in BOOLEAN :
        LET has == fs.proc[processed_dir(cleaned)].has
        IN  /\ runners[p].pc \in Rest
            /\ started < MaxRuns
            /\ runners' = [q \in Runners |->
                  IF q = p
                  THEN [Idle EXCEPT
                          !.pc = IF ProcessedPresent(fs, cleaned)
                                 THEN "load" ELSE "check_raw",
                          !.cleaned = cleaned,
                          !.stamp = started + 1,
                          !.partial = has # {} /\ ~Loadable(fs, cleaned),
                          !.overlapped =
                              \E o \in Runners : runners[o].pc \notin Rest]
                  ELSE IF runners[q].pc \notin Rest
                       THEN [runners[q] EXCEPT !.overlapped = TRUE]
                       ELSE runners[q]]
            /\ started' = started + 1
            /\ UNCHANGED <<cacheVars, writer, interrupted>>

\* the raw files are looked for; download() is entered when one is missing
CheckRaw(p) ==
    LET r == runners[p]
    IN  /\ r.pc = "check_raw"
        /\ IF RawPresent(fs, r.cleaned)
           THEN /\ runners' = [runners EXCEPT ![p].pc = "parse"]
                /\ fs' = fs
           ELSE /\ runners' = [runners EXCEPT ![p].pc = "fetch",
                                  ![p].ran = @ \cup {"download"},
                                  ![p].stale =
                                      fs.dirs[raw_dir(r.cleaned)].files # {}]
                /\ fs' = makedirs(fs, raw_dir(r.cleaned))
        /\ UNCHANGED <<remote, ds, processRuns, started, writer, interrupted>>

\* line 110
Fetch(p) ==
    LET r == runners[p]
    IN  /\ r.pc = "fetch"
        /\ fs' = download_url(fs, archive_url(r.cleaned))
        /\ runners' = [runners EXCEPT ![p].pc = "extract",
                                      ![p].fetches = @ + 1]
        /\ UNCHANGED <<remote, ds, processRuns, started, writer, interrupted>>

\* line 111
Extract(p) ==
    LET r == runners[p]
    IN  /\ r.pc = "extract"
        /\ IF can_extract(fs)
           THEN /\ fs' = extract_zip(fs)
                /\ runners' = [runners EXCEPT ![p].pc = "unlink"]
           ELSE /\ fs' = fs
                /\ runners' = [runners EXCEPT ![p] = raise(r, "os")]
        /\ UNCHANGED <<remote, ds, processRuns, started, writer, interrupted>>

\* line 112
Unlink(p) ==
    LET r == runners[p]
    IN  /\ r.pc = "unlink"
        /\ IF can_unlink(fs)
           THEN /\ fs' = unlink_zip(fs)
                /\ runners' = [runners EXCEPT ![p].pc = "rmtree"]
           ELSE /\ fs' = fs
                /\ runners' = [runners EXCEPT ![p] = raise(r, "os")]
        /\ UNCHANGED <<remote, ds, processRuns, started, writer, interrupted>>

\* line 113
Rmtree(p) ==
    LET r == runners[p]
    IN  /\ r.pc = "rmtree"
        /\ IF can_rmtree(fs, r.cleaned)
           THEN /\ fs' = rmtree_raw(fs, r.cleaned)
                /\ runners' = [runners EXCEPT ![p].pc = "rename"]
           ELSE /\ fs' = fs
                /\ runners' = [runners EXCEPT ![p] = raise(r, "os")]
        /\ UNCHANGED <<remote, ds, processRuns, started, writer, interrupted>>

\* line 114
Rename(p) ==
    LET r == runners[p]
    IN  /\ r.pc = "rename"
        /\ IF can_rename(fs, r.cleaned)
           THEN /\ fs' = rename_extracted(fs, r.cleaned)
                /\ runners' = [runners EXCEPT ![p].pc = "parse"]
           ELSE /\ fs' = fs
                /\ runners' = [runners EXCEPT ![p] = raise(r, "os")]
        /\ UNCHANGED <<remote, ds, processRuns, started, writer, interrupted>>

\* the processed directory is made, then lines 117-124: the raw files are
\* read, the records filtered and mapped
Parse(p) ==
    LET r == runners[p]
        parsed == read_tu_data(fs.dirs[raw_dir(r.cleaned)])
        kept == apply_pre_filter("None", parsed.data_list)
    IN  /\ r.pc = "parse"
        /\ fs' = makedirs_processed(fs, processed_dir(r.cleaned))
        /\ IF can_read(fs, r.cleaned)
           THEN runners' = [runners EXCEPT
                   ![p].pc = "save1",
                   ![p].ran = @ \cup {"process"},
                   ![p].data =
                       [parsed EXCEPT
                           !.data_list = apply_pre_transform("None", kept)]]
           ELSE runners' = [runners EXCEPT
                   ![p] = raise([r EXCEPT !.ran = @ \cup {"process"}], "os")]
        /\ processRuns' = [processRuns EXCEPT ![r.cleaned] = @ + 1]
        /\ UNCHANGED <<remote, ds, started, writer, interrupted>>

\* line 126
Save1(p) ==
    LET r == runners[p]
        path == processed_dir(r.cleaned)
    IN  /\ r.pc = "save1"
        /\ fs' = save_data_list(fs, path, r.data.data_list)
        /\ writer' = [writer EXCEPT ![path][1] = r.stamp]
        /\ runners' = [runners EXCEPT ![p].pc = "save2"]
        /\ UNCHANGED <<remote, ds, processRuns, started, interrupted>>

\* line 127
Save2(p) ==
    LET r == runners[p]
        path == processed_dir(r.cleaned)
    IN  /\ r.pc = "save2"
        /\ fs' = save_num_node_attributes(fs, path,
                                          r.data.num_node_attributes)
        /\ writer' = [writer EXCEPT ![path][2] = r.stamp]
        /\ runners' = [runners EXCEPT ![p].pc = "save3"]
        /\ UNCHANGED <<remote, ds, processRuns, started, interrupted>>

\* line 128
Save3(p) ==
    LET r == runners[p]
        path == processed_dir(r.cleaned)
    IN  /\ r.pc = "save3"
        /\ fs' = save_num_edge_attributes(fs, path,
                                          r.data.num_edge_attributes)
        /\ writer' = [writer EXCEPT ![path][3] = r.stamp]
        /\ runners' = [runners EXCEPT ![p].pc = "load"]
        /\ UNCHANGED <<remote, ds, processRuns, started, interrupted>>

\* line 66: the record list is read
Load1(p) ==
    LET r == runners[p]
        path == processed_dir(r.cleaned)
    IN  /\ r.pc = "load"
        /\ IF can_load(fs, r.cleaned, 1)
           THEN runners' = [runners EXCEPT
                   ![p].pc = "load2",
                   ![p].read.data_list = fs.proc[path].data_list,
                   ![p].loaded[1] = writer[path][1]]
           ELSE runners' = [runners EXCEPT ![p] = raise(r, "os")]
        /\ UNCHANGED <<cacheVars, started, writer, interrupted>>

\* line 67: the number of node attribute columns is read
Load2(p) ==
    LET r == runners[p]
        path == processed_dir(r.cleaned)
    IN  /\ r.pc = "load2"
        /\ IF can_load(fs, r.cleaned, 2)
           THEN runners' = [runners EXCEPT
                   ![p].pc = "load3",
                   ![p].read.num_node_attributes =
                       fs.proc[path].num_node_attributes,
                   ![p].loaded[2] = writer[path][2]]
           ELSE runners' = [runners EXCEPT ![p] = raise(r, "os")]
        /\ UNCHANGED <<cacheVars, started, writer, interrupted>>

\* lines 68-78: the number of edge attribute columns is read, the records
\* read at line 66 are stripped in memory (use_node_attributes and
\* use_edge_attributes at their default, False) and the object is complete
Load3(p) ==
    LET r == runners[p]
        una == FALSE
        uea == FALSE
        path == processed_dir(r.cleaned)
        k == fs.proc[path].num_edge_attributes
        l1 == strip_node_attributes(r.read.data_list,
                                    r.read.num_node_attributes, una)
        l2 == strip_edge_attributes(l1, k, uea)
    IN  /\ r.pc = "load3"
        /\ IF can_load(fs, r.cleaned, 3)
           THEN /\ runners' = [runners EXCEPT
                       ![p].pc = "done",
                       ![p].read.num_edge_attributes = k,
                       ![p].loaded[3] = writer[path][3]]
                /\ ds' = [built |-> TRUE,
                          repeated |-> /\ ds.built
                                       /\ ds.cleaned = r.cleaned
                                       /\ ds.use_node_attributes = una
                                       /\ ds.use_edge_attributes = uea,
                          follows_stripped |-> /\ ds.built
                                               /\ ds.cleaned = r.cleaned
                                               /\ ~ds.use_node_attributes
                                               /\ ds.num_node_attributes > 0,
                          cleaned |-> r.cleaned,
                          use_node_attributes |-> una,
                          use_edge_attributes |-> uea,
                          data_list |-> l2,
                          num_node_attributes |-> r.read.num_node_attributes,
                          num_edge_attributes |-> k,
                          ran |-> r.ran,
                          applied |-> NothingApplied]
           ELSE /\ runners' = [runners EXCEPT ![p] = raise(r, "os")]
                /\ ds' = ds
        /\ UNCHANGED <<remote, fs, processRuns, started, writer, interrupted>>

\* a call of download() or the parse raises: no network, a bad archive, an
\* operating-system error, malformed raw text
Fail(p) ==
    LET r == runners[p]
    IN  /\ r.pc \in FailSteps
        /\ runners' = [runners EXCEPT ![p] =
              raise([r EXCEPT !.ran = IF r.pc = "parse"
                                      THEN @ \cup {"process"} ELSE @],
                    "env")]
        /\ UNCHANGED <<cacheVars, started, writer, interrupted>>

\* what a kill can leave on disk: nothing of the call under way, or a part
\* of it (an archive cut off, a folder extracted in part, a raw directory
\* removed in part)
KillLeftovers(f, r) ==
    {f} \cup
    CASE r.pc = "fetch" ->
           {[f EXCEPT !.zip = [exists |-> TRUE,
                               origin |-> archive_url(r.cleaned),
                               complete |-> FALSE]]}
      [] r.pc = "extract" /\ can_extract(f) ->
           {[f EXCEPT !.dirs[ExtractedDir] =
                [exists |-> TRUE, files |-> {"A"}, origin |-> f.zip.origin]]}
      [] r.pc = "rmtree" /\ can_rmtree(f, r.cleaned) ->
           {[f EXCEPT !.dirs[raw_dir(r.cleaned)].files = @ \ {"A"}]}
      [] OTHER -> {}

\* the process is killed inside or between two calls
Kill(p) ==
    LET r == runners[p]
    IN  /\ r.pc \in ActiveSteps
        /\ fs' \in KillLeftovers(fs, r)
        /\ runners' = [runners EXCEPT ![p].pc = "killed", ![p].at = r.pc]
        /\ interrupted' = IF r.pc \in DownloadSteps
                          THEN interrupted \cup {r.cleaned}
                          ELSE interrupted
        /\ UNCHANGED <<remote, ds, processRuns, started, writer>>

\* between two constructions the required raw files of one variant are
\* deleted by hand
DeleteRawAtRest ==
    \E cleaned \in BOOLEAN :
        LET path == raw_dir(cleaned)
        IN  /\ \A p \in Runners : runners[p].pc \in Rest
            /\ fs.dirs[path].files \cap Range(raw_file_names) # {}
            /\ fs' = [fs EXCEPT !.dirs[path].files =
                                    @ \ Range(raw_file_names)]
            /\ ds' = NoDataset
            /\ interrupted' = {}
            /\ UNCHANGED <<remote, processRuns, runners, started, writer>>

\* constructions one after the other, any of which may fail or be killed
NextSteps ==
    \/ DeleteRawAtRest
    \/ \E p \in {1} :
        \/ Start(p)
        \/ CheckRaw(p)
        \/ Fetch(p)
        \/ Extract(p)
        \/ Unlink(p)
        \/ Rmtree(p)
        \/ Rename(p)
        \/ Parse(p)
        \/ Save1(p)
        \/ Save2(p)
        \/ Save3(p)
        \/ Load1(p)
        \/ Load2(p)
        \/ Load3(p)
        \/ Fail(p)
        \/ Kill(p)

SpecSteps == InitSteps /\ [][NextSteps]_vars

\* two constructions whose calls interleave; no call fails on its own and
\* nothing is killed
NextConcurrent ==
    \E p \in Runners :
        \/ Start(p)
        \/ CheckRaw(p)
        \/ Fetch(p)
        \/ Extract(p)
        \/ Unlink(p)
        \/ Rmtree(p)
        \/ Rename(p)
        \/ Parse(p)
        \/ Save1(p)
        \/ Save2(p)
        \/ Save3(p)
        \/ Load1(p)
        \/ Load2(p)
        \/ Load3(p)

SpecConcurrent == InitSteps /\ [][NextConcurrent]_vars


(***************************************************************************)
(* Claims.                                                                 *)
(***************************************************************************)
\* the processed directory a dataset object was loaded from
CacheOf(d) == fs.proc[processed_dir(d.cleaned)]

\* the object is the product of the latest construction and nothing was
\* deleted since: the cache it was loaded from is the one on disk
Fresh == ds.built

\* C1: a construction that repeats the previous one (same cleaned flag and
\* attribute flags, whatever callables it passes, nothing deleted in between)
\* yields the same record list and the same two attribute counts, and leaves
\* every file as it was: it only reads what the first one persisted.
C1_IdempotentCaching ==
    [][ds'.repeated
         => /\ ds'.data_list = ds.data_list
            /\ ds'.num_node_attributes = ds.num_node_attributes
            /\ ds'.num_edge_attributes = ds.num_edge_attributes
            /\ ds'.ran = {}
            /\ fs' = fs]_vars

\* a second construction in a row has loaded a non-empty list
C1_Witness ==
    /\ Fresh
    /\ ds.repeated
    /\ ds.data_list # <<>>
    /\ ds.num_node_attributes > 0
    /\ ~ds.use_node_attributes

\* C2: with use_node_attributes=False every record's x has exactly
\* num_node_labels columns, num_node_labels being what the object reports.
C2_LabelColumns ==
    (Fresh /\ ~ds.use_node_attributes)
        => \A i \in 1..Len(ds.data_list) :
              ds.data_list[i].x.m = num_node_labels(ds)

\* C3: the reported num_node_labels and num_edge_labels are never negative.
C3_LabelCountsNonNegative ==
    Fresh => (num_node_labels(ds) >= 0 /\ num_edge_labels(ds) >= 0)

\* the on-disk layout: <root>/<name>/raw[_cleaned], processed[_cleaned]
LayoutRaw(cleaned) == IF cleaned THEN "raw_cleaned" ELSE "raw"
LayoutProcessed(cleaned) ==
    IF cleaned THEN "processed_cleaned" ELSE "processed"
LayoutArtifacts ==
    {"data.pt", "num_node_attributes.pt", "num_edge_attributes.pt"}
LayoutUrl(cleaned) == IF cleaned THEN cleaned_url ELSE url

\* this step is a construction (a deletion by hand leaves no object)
Constructed == ds'.built

\* C4: with the two required raw files in place and the three processed
\* artifacts deleted, a construction runs process() and nothing else: all
\* three artifacts are written again from the raw files, nothing is fetched
\* and the raw directory, the archive and the extraction folder stay as they
\* were.
C4_ReprocessWithoutDownload ==
    [][\A c \in BOOLEAN :
         (/\ Constructed
          /\ ds'.cleaned = c
          /\ fs.proc[LayoutProcessed(c)].has = {}
          /\ {"A", "graph_indicator"} \subseteq fs.dirs[LayoutRaw(c)].files)
         => /\ ds'.ran = {"process"}
            /\ processRuns'[c] = processRuns[c] + 1
            /\ fs'.dirs = fs.dirs
            /\ fs'.zip = fs.zip
            /\ fs'.proc[LayoutProcessed(c)].has = LayoutArtifacts
            /\ fs'.proc[LayoutProcessed(c)].num_node_attributes = remote.na
            /\ fs'.proc[LayoutProcessed(c)].num_edge_attributes = remote.ea
       ]_vars

\* the latest construction ran process() and fetched nothing: the raw files
\* were there, the processed artifacts had been deleted
C4_Witness ==
    /\ Fresh
    /\ ds.ran = {"process"}
    /\ CacheOf(ds).has = LayoutArtifacts
    /\ ds.data_list # <<>>

\* C5: a construction of one variant leaves the raw directory and the
\* processed directory of the other variant exactly as they were, fetches
\* its raw files from its own URL into its own raw directory, and loads from
\* its own processed directory; so both variants can be cached side by side.
C5_VariantsDisjoint ==
    [][\A c \in BOOLEAN :
         (Constructed /\ ds'.cleaned = c)
         => /\ fs'.dirs[LayoutRaw(~c)] = fs.dirs[LayoutRaw(~c)]
            /\ fs'.proc[LayoutProcessed(~c)] = fs.proc[LayoutProcessed(~c)]
            /\ ("download" \in ds'.ran
                  => fs'.dirs[LayoutRaw(c)].origin = LayoutUrl(c))
            /\ fs'.proc[LayoutProcessed(c)].has = LayoutArtifacts
            /\ ds'.num_node_attributes =
                   fs'.proc[LayoutProcessed(c)].num_node_attributes
            /\ ds'.num_edge_attributes =
                   fs'.proc[LayoutProcessed(c)].num_edge_attributes
            /\ Len(ds'.data_list) = Len(fs'.proc[LayoutProcessed(c)].data_list)
       ]_vars

\* both variants are cached side by side, each from its own URL, and the
\* cleaned one was built after the other
C5_Witness ==
    /\ Fresh
    /\ ds.cleaned
    /\ "download" \in ds.ran
    /\ \A c \in BOOLEAN :
          /\ fs.dirs[LayoutRaw(c)].files = ArchiveFiles
          /\ fs.dirs[LayoutRaw(c)].origin = LayoutUrl(c)
          /\ fs.proc[LayoutProcessed(c)].has = LayoutArtifacts
          /\ Len(fs.proc[LayoutProcessed(c)].data_list) = GraphsAt(LayoutUrl(c))

\* C6: between two deletions of a variant's processed artifacts process()
\* runs at most once for it, and a construction that finds the three
\* artifacts, whatever pre_filter and pre_transform it passes, does not run
\* process() and rewrites no processed artifact.
C6_ProcessAtMostOnce ==
    /\ [](\A c \in BOOLEAN : processRuns[c] <= 1)
    /\ [][\A c \in BOOLEAN :
            (/\ Constructed
             /\ ds'.cleaned = c
             /\ LayoutArtifacts \subseteq fs.proc[LayoutProcessed(c)].has)
            => /\ "process" \notin ds'.ran
               /\ processRuns' = processRuns
               /\ fs'.proc = fs.proc
         ]_vars

\* a later construction, not a repetition of the one before it, found the
\* artifacts of the single process() run and reused them
C6_Witness ==
    /\ Fresh
    /\ ~ds.repeated
    /\ "process" \notin ds.ran
    /\ processRuns[ds.cleaned] = 1
    /\ ds.data_list # <<>>

\* the records read_tu_data parses from a variant's raw directory after
\* this step
ParsedAfter(c) == read_tu_data(fs'.dirs[LayoutRaw(c)])

\* C7: when pre_filter rejects every parsed record, process() persists the
\* empty list together with the two attribute counts; and a construction that
\* finds a persisted empty list loads it without running process() again.
C7_RejectAllPersistsEmpty ==
    [][\A c \in BOOLEAN :
         (Constructed /\ ds'.cleaned = c)
         => /\ (/\ "process" \in ds'.ran
                /\ ds'.applied.pre_filter # "None"
                /\ \A i \in 1..Len(ParsedAfter(c).data_list) :
                      ~pre_filter(ds'.applied.pre_filter,
                                  ParsedAfter(c).data_list[i]))
                 => /\ fs'.proc[LayoutProcessed(c)].has = LayoutArtifacts
                    /\ fs'.proc[LayoutProcessed(c)].data_list = <<>>
                    /\ fs'.proc[LayoutProcessed(c)].num_node_attributes
                         = ParsedAfter(c).num_node_attributes
                    /\ fs'.proc[LayoutProcessed(c)].num_edge_attributes
                         = ParsedAfter(c).num_edge_attributes
            /\ (/\ LayoutArtifacts \subseteq fs.proc[LayoutProcessed(c)].has
                /\ fs.proc[LayoutProcessed(c)].data_list = <<>>)
                 => /\ ds'.data_list = <<>>
                    /\ "process" \notin ds'.ran
                    /\ fs'.proc[LayoutProcessed(c)]
                         = fs.proc[LayoutProcessed(c)]
       ]_vars

\* a later construction has loaded the empty list that an earlier one
\* persisted from an archive that has graphs
C7_Witness ==
    /\ Fresh
    /\ ds.repeated
    /\ "process" \notin ds.ran
    /\ ds.data_list = <<>>
    /\ CacheOf(ds).has = LayoutArtifacts
    /\ CacheOf(ds).data_list = <<>>
    /\ fs.dirs[LayoutRaw(ds.cleaned)].files = ArchiveFiles

\* out is [pre_transform(r) for r in parsed if pre_filter(r)], in the order of
\* parsed, None standing for accept-all and for the identity
FilteredThenTransformed(out, parsed, pf, pt) ==
    LET Accepts(r) == pf = "None" \/ pre_filter(pf, r)
        Transformed(r) == IF pt = "None" THEN r ELSE pre_transform(pt, r)
        keep == {i \in 1..Len(parsed) : Accepts(parsed[i])}
        rank(i) == Cardinality({j \in keep : j <= i})
    IN  /\ Len(out) = Cardinality(keep)
        /\ \A i \in keep : out[rank(i)] = Transformed(parsed[i])

\* C8: the list process() persists is the parsed records that pre_filter
\* accepts, judged before any transform, each mapped through pre_transform,
\* in parse order; a missing pre_filter accepts all, a missing pre_transform
\* changes nothing.
C8_FilterThenTransform ==
    (Fresh /\ "process" \in ds.ran)
        => FilteredThenTransformed(
               CacheOf(ds).data_list,
               read_tu_data(fs.dirs[LayoutRaw(ds.cleaned)]).data_list,
               ds.applied.pre_filter, ds.applied.pre_transform)

\* process() has kept the one-node graph, which the filter accepts with its
\* two columns and would reject with three, and has given it its third
\* column afterwards
C8_Witness ==
    /\ Fresh
    /\ "process" \in ds.ran
    /\ ds.applied = [pre_filter |-> "small", pre_transform |-> "Constant"]
    /\ ~ds.cleaned
    /\ remote.na + remote.nl = 2
    /\ Len(CacheOf(ds).data_list) = 1
    /\ CacheOf(ds).data_list[1].x.n = 1
    /\ CacheOf(ds).data_list[1].x.m = 3

\* t is c without its first k columns: same rows, the other columns in order
DropsLeadingColumns(t, c, k) ==
    /\ t.n = c.n
    /\ t.m = c.m - k
    /\ \A r \in 1..c.n : \A j \in (k + 1)..c.m : t.v[r][j - k] = c.v[r][j]

\* C9: a loaded record's x is the cached x without its first
\* num_node_attributes columns when that count is positive and
\* use_node_attributes is false, and the cached x otherwise; likewise the
\* adjacency values with num_edge_attributes and use_edge_attributes; either
\* decision reads its own count and flag only.
C9_AttributeStripping ==
    Fresh =>
        /\ Len(ds.data_list) = Len(CacheOf(ds).data_list)
        /\ ds.num_node_attributes = CacheOf(ds).num_node_attributes
        /\ ds.num_edge_attributes = CacheOf(ds).num_edge_attributes
        /\ \A i \in 1..Len(ds.data_list) :
              /\ IF ds.num_node_attributes > 0 /\ ~ds.use_node_attributes
                 THEN DropsLeadingColumns(ds.data_list[i].x,
                                          CacheOf(ds).data_list[i].x,
                                          ds.num_node_attributes)
                 ELSE ds.data_list[i].x = CacheOf(ds).data_list[i].x
              /\ IF ds.num_edge_attributes > 0 /\ ~ds.use_edge_attributes
                 THEN DropsLeadingColumns(ds.data_list[i].adj,
                                          CacheOf(ds).data_list[i].adj,
                                          ds.num_edge_attributes)
                 ELSE ds.data_list[i].adj = CacheOf(ds).data_list[i].adj

\* node attributes stripped, label columns left, edge attributes kept
C9_Witness ==
    /\ Fresh
    /\ Len(ds.data_list) >= 2
    /\ ds.num_node_attributes > 0
    /\ ~ds.use_node_attributes
    /\ ds.data_list[2].x.m > 0
    /\ ds.data_list[2].x.m < CacheOf(ds).data_list[2].x.m
    /\ ds.num_edge_attributes > 0
    /\ ds.use_edge_attributes
    /\ ds.data_list[2].adj = CacheOf(ds).data_list[2].adj

\* C10: with use_node_attributes=True every record's x has num_node_features
\* columns, and that is the full number of columns persisted for it.
C10_AllColumnsKept ==
    (Fresh /\ ds.use_node_attributes)
        => \A i \in 1..Len(ds.data_list) :
              /\ ds.data_list[i].x.m = num_node_features(ds)
              /\ ds.data_list[i].x.m = CacheOf(ds).data_list[i].x.m
              /\ ds.data_list[i].x.m >= ds.num_node_attributes

\* attribute columns and a label column are all there
C10_Witness ==
    /\ Fresh
    /\ ds.use_node_attributes
    /\ ds.num_node_attributes > 0
    /\ Len(ds.data_list) >= 2
    /\ ds.data_list[2].x.m > ds.num_node_attributes

\* C11: for every loaded dataset, whatever the attribute flags, the label
\* count and the attribute count it reports add up to the feature count it
\* reports, for the nodes and for the edges.
C11_CountsAddUp ==
    Fresh =>
        /\ num_node_labels(ds) + ds.num_node_attributes
               = num_node_features(ds)
        /\ num_edge_labels(ds) + ds.num_edge_attributes
               = num_edge_features(ds)

\* a dataset loaded with its node attribute columns stripped and its edge
\* attribute channels kept
C11_Witness ==
    /\ Fresh
    /\ ds.data_list # <<>>
    /\ ds.num_node_attributes > 0
    /\ ~ds.use_node_attributes
    /\ ds.num_edge_attributes > 0
    /\ ds.use_edge_attributes
    /\ num_node_features(ds) < ds.num_node_attributes + 1

\* C12: a construction that finds the three processed artifacts of its
\* variant runs neither download() nor process() and touches no file, also
\* when a required raw file is missing: it goes straight to loading.
C12_ProcessedCacheFirst ==
    [][\A c \in BOOLEAN :
          (/\ Constructed
           /\ ds'.cleaned = c
           /\ LayoutArtifacts \subseteq fs.proc[LayoutProcessed(c)].has)
          => /\ ds'.ran = {}
             /\ fs' = fs
             /\ ds'.num_node_attributes =
                    fs.proc[LayoutProcessed(c)].num_node_attributes
       ]_vars

\* the latest construction loaded the artifacts and ran nothing, while a
\* required raw file of its variant is missing
C12_Witness ==
    /\ Fresh
    /\ ds.ran = {}
    /\ ds.data_list # <<>>
    /\ fs.dirs[LayoutRaw(ds.cleaned)].exists
    /\ ~({"A", "graph_indicator"} \subseteq fs.dirs[LayoutRaw(ds.cleaned)].files)

\* C13: when download() has returned, the archive <root>/<name>/<name>.zip
\* is gone, the extraction folder <root>/<name>/<name> is gone, and the raw
\* directory of the variant holds exactly what the archive of its URL
\* unpacks to, whatever it held before.
C13_DownloadPostState ==
    \A p \in Runners :
        (runners[p].pc = "parse" /\ "download" \in runners[p].ran)
        => /\ ~fs.zip.exists
           /\ ~fs.dirs[ExtractedDir].exists
           /\ fs.dirs[LayoutRaw(runners[p].cleaned)] =
                  [exists |-> TRUE, files |-> ArchiveFiles,
                   origin |-> LayoutUrl(runners[p].cleaned)]

\* download() has just returned in a construction that found a raw directory
\* with files in it but a required one missing
C13_Witness ==
    /\ runners[1].pc = "parse"
    /\ "download" \in runners[1].ran
    /\ runners[1].stale
    /\ fs.dirs[LayoutRaw(runners[1].cleaned)].files = ArchiveFiles

\* the processed artifacts on disk: which exist, and what they hold
Artifacts ==
    [d \in {"processed", "processed_cleaned"} |->
        [has |-> fs.proc[d].has, data_list |-> fs.proc[d].data_list,
         num_node_attributes |-> fs.proc[d].num_node_attributes,
         num_edge_attributes |-> fs.proc[d].num_edge_attributes]]

\* C14: a failure of any call of download() ends the construction with that
\* error: nothing is fetched a second time, process() does not run, and from
\* the start of the construction to the error no processed artifact is
\* created or changed; a failure while the raw files are parsed ends the
\* construction too, with none of the three artifacts written.
C14_FailurePropagates ==
    /\ [](\A p \in Runners :
            /\ runners[p].fetches <= 1
            /\ (runners[p].pc = "failed" /\ runners[p].at \in DownloadSteps)
               => "process" \notin runners[p].ran)
    /\ [][\A p \in Runners :
            /\ runners'[p].pc \in {"check_raw", "fetch", "extract", "unlink",
                                   "rmtree", "rename", "parse", "failed"}
               => Artifacts' = Artifacts
            /\ (runners[p].pc = "failed" /\ runners'[p].pc # "failed")
               => runners'[p].stamp # runners[p].stamp
         ]_vars

\* a construction that found the data list without the two counts, and a
\* required raw file missing, has failed in the last call of download()
C14_Witness ==
    /\ runners[1].pc = "failed"
    /\ runners[1].at = "rename"
    /\ runners[1].partial
    /\ runners[1].fetches = 1
    /\ fs.proc[LayoutProcessed(runners[1].cleaned)].has = {"data.pt"}

\* C15: a construction never changes processed artifacts it finds: stripping
\* happens on the loaded records only.  Whatever flags the constructions so
\* far passed, the persisted records keep every attribute and label column
\* process() wrote, and a construction with use_node_attributes=True that
\* follows one of the same variant with use_node_attributes=False loads the
\* node feature matrices exactly as they are persisted.
C15_LoadingLeavesCache ==
    /\ [](\A c \in BOOLEAN :
            LET p == fs.proc[LayoutProcessed(c)]
            IN  LayoutArtifacts \subseteq p.has
                => \A i \in 1..Len(p.data_list) :
                      /\ p.data_list[i].x.m >= p.num_node_attributes + remote.nl
                      /\ p.data_list[i].adj.m
                             = p.num_edge_attributes + remote.el)
    /\ [](Fresh /\ ds.follows_stripped /\ ds.use_node_attributes
            => /\ Len(ds.data_list) = Len(CacheOf(ds).data_list)
               /\ \A i \in 1..Len(ds.data_list) :
                     /\ ds.data_list[i].x = CacheOf(ds).data_list[i].x
                     /\ ds.data_list[i].x.m
                            >= ds.num_node_attributes + remote.nl)
    /\ [][\A c \in BOOLEAN :
            (Constructed
             /\ LayoutArtifacts \subseteq fs.proc[LayoutProcessed(c)].has)
            => fs'.proc[LayoutProcessed(c)] = fs.proc[LayoutProcessed(c)]
         ]_vars

\* a dataset loaded with its attribute columns right after one of the same
\* variant was loaded without them
C15_Witness ==
    /\ Fresh
    /\ ds.follows_stripped
    /\ ds.use_node_attributes
    /\ ds.data_list # <<>>
    /\ ds.data_list[1].x.m = ds.num_node_attributes + 1

\* C16: a construction that finds some but not all of the three processed
\* artifacts (a run of process() was cut off between its saves) runs
\* process() before it loads, and what it loads was written by that run; the
\* record list and the two counts a construction loads were always written
\* by one and the same run of process().
C16_AllThreeOrReprocess ==
    \A p \in Runners :
        LET r == runners[p]
        IN  /\ (r.partial /\ r.pc \in {"load", "load2", "load3", "done"})
               => "process" \in r.ran
            /\ r.pc = "done"
               => /\ r.loaded[1] > 0
                  /\ r.loaded[2] = r.loaded[1]
                  /\ r.loaded[3] = r.loaded[1]
                  /\ ("process" \in r.ran
                        => r.loaded[1] = r.stamp)

\* a construction that found the data list of a cut-off run without the two
\* counts has loaded three artifacts of its own run
C16_Witness ==
    /\ runners[1].pc = "done"
    /\ runners[1].partial
    /\ runners[1].stamp > 1
    /\ runners[1].loaded = <<runners[1].stamp, runners[1].stamp,
                             runners[1].stamp>>
    /\ writer[LayoutProcessed(runners[1].cleaned)] = runners[1].loaded

\* C17: after any series of constructions of either variant, one at a time,
\* whatever is in the directory raw was unpacked from the archive of the
\* canonical URL and whatever is in raw_cleaned from the archive of the
\* cleaned URL; the archive path and the extraction folder, which the two
\* variants share, are left empty by every construction.
C17_Provenance ==
    /\ \A c \in BOOLEAN :
          fs.dirs[LayoutRaw(c)].files # {}
          => fs.dirs[LayoutRaw(c)].origin = LayoutUrl(c)
    /\ ~fs.zip.exists
    /\ ~fs.dirs["extracted"].exists

\* both variants were downloaded, the canonical one last
C17_Witness ==
    /\ Fresh
    /\ ~ds.cleaned
    /\ "download" \in ds.ran
    /\ fs.dirs["raw"].files = ArchiveFiles
    /\ fs.dirs["raw"].origin = url
    /\ fs.dirs["raw_cleaned"].files # {}
    /\ fs.dirs["raw_cleaned"].origin = cleaned_url

\* C18: of two constructions started on an empty cache, one whose calls all
\* ran while no other construction was under way never raises; with the
\* calls of download() and process() of the two interleaved, a construction
\* can raise and the raw directory can end up missing (the state
\* C18_Witness describes).
C18_OnlyInterleavingFails ==
    \A p \in Runners :
        runners[p].pc = "failed"
        => /\ runners[p].overlapped
           /\ runners[p].error = "os"

\* the two constructions are over, one of them raised, and the raw directory
\* of its variant does not exist
C18_Witness ==
    /\ started = 2
    /\ \A p \in Runners : runners[p].pc \in {"done", "failed"}
    /\ \E p \in Runners :
          /\ runners[p].pc = "failed"
          /\ ~fs.dirs[LayoutRaw(runners[p].cleaned)].exists

\* C19 as stated: once a construction of a variant was killed inside
\* download(), no construction of that variant completes until files are
\* deleted by hand.
C19_InterruptedCacheBlocks ==
    \A p \in Runners :
        runners[p].pc = "done" => runners[p].cleaned \notin interrupted

\* C19: what a construction killed inside download() leaves behind (the
\* archive, whole or cut off, the extraction folder, whole or in part, a raw
\* directory removed in whole or in part) makes no later construction of
\* that variant raise in fetch, unlink, rmtree, rename, the parse or the
\* load: with nothing deleted by hand it fetches again, and when it returns
\* from a construction that ran download() the raw directory holds the
\* unpacked archive and the staging paths are empty.
C19_RetryRecovers ==
    \A p \in Runners :
        LET r == runners[p]
        IN  r.cleaned \in interrupted
            => /\ (r.pc = "failed" /\ r.error = "os") => r.at = "extract"
               /\ (r.pc = "done" /\ "download" \in r.ran)
                  => /\ fs.dirs[LayoutRaw(r.cleaned)].files = ArchiveFiles
                     /\ ~fs.zip.exists
                     /\ ~fs.dirs["extracted"].exists

\* a construction has completed, download() included, after one of the same
\* variant was killed inside download() and nothing was deleted by hand
C19_Witness ==
    /\ runners[1].pc = "done"
    /\ runners[1].cleaned \in interrupted
    /\ "download" \in runners[1].ran
    /\ runners[1].stamp = 2
    /\ ds.data_list # <<>>

====
